---- MODULE Spec2Model ----
(***************************************************************************)
(* A model of src/main.py, the "Energy & Nuclear Simulator" dashboard.     *)
(*                                                                         *)
(* The script is re-run from its first line on every interaction: the      *)
(* scenario selectbox yields a defaults record, six sliders yield the      *)
(* inputs, five metrics are computed, and the Sankey link lists are built. *)
(*                                                                         *)
(* The arithmetic of the script is Python float arithmetic, that is IEEE   *)
(* 754 binary64 with round-to-nearest-even.  It is modelled bit for bit:   *)
(* a float is a sign, a 53 bit significand and a binary exponent, and the  *)
(* significand is a natural number kept as a little-endian sequence of     *)
(* 15 bit limbs (TLC's integers are 32 bits wide).  Every operation        *)
(* computes the exact result and rounds it once.  The values of the script *)
(* lie between 2^-10 and 2^17, so overflow, underflow and subnormal        *)
(* numbers do not arise and are not modelled; -0.0 is identified with 0.0. *)
(***************************************************************************)
EXTENDS Integers, Sequences, FiniteSets

(***************************************************************************)
(* Natural numbers of any size: little-endian sequences of limbs below     *)
(* Base, without high zero limbs; <<>> is zero.                            *)
(***************************************************************************)
LimbBits == 15
Base == 32768
Prec == 53

Pow2(n) == 2 ^ n

RECURSIVE BTrim(_)
BTrim(a) ==
  IF a = <<>> THEN a
  ELSE IF a[Len(a)] = 0 THEN BTrim(SubSeq(a, 1, Len(a) - 1)) ELSE a

RECURSIVE Zeros(_)
Zeros(n) == IF n = 0 THEN <<>> ELSE <<0>> \o Zeros(n - 1)

LimbOf(a) == IF a = <<>> THEN 0 ELSE Head(a)
Rest(a) == IF a = <<>> THEN a ELSE Tail(a)

\* a + b + c for a carry c
RECURSIVE BAddC(_, _, _)
BAddC(a, b, c) ==
  IF a = <<>> /\ b = <<>> THEN (IF c = 0 THEN <<>> ELSE <<c>>)
  ELSE <<(LimbOf(a) + LimbOf(b) + c) % Base>>
       \o BAddC(Rest(a), Rest(b), (LimbOf(a) + LimbOf(b) + c) \div Base)

BAdd(a, b) == BAddC(a, b, 0)

\* a - b - c for a >= b + c and a borrow c, with high zero limbs
RECURSIVE BSubC(_, _, _)
BSubC(a, b, c) ==
  IF a = <<>> THEN <<>>
  ELSE <<(Head(a) - LimbOf(b) - c) % Base>>
       \o BSubC(Tail(a), Rest(b), IF Head(a) - LimbOf(b) - c < 0 THEN 1 ELSE 0)

BSub(a, b) == BTrim(BSubC(a, b, 0))

\* -1, 0, 1 as a < b, a = b, a > b on the limbs 1..i, for Len(a) = Len(b)
RECURSIVE BCmpAt(_, _, _)
BCmpAt(a, b, i) ==
  IF i = 0 THEN 0
  ELSE IF a[i] < b[i] THEN -1
  ELSE IF a[i] > b[i] THEN 1
  ELSE BCmpAt(a, b, i - 1)

BCmp(a, b) ==
  IF Len(a) < Len(b) THEN -1
  ELSE IF Len(a) > Len(b) THEN 1
  ELSE BCmpAt(a, b, Len(a))

\* a * k + c for 0 <= k, c < Base
RECURSIVE BMulSmallC(_, _, _)
BMulSmallC(a, k, c) ==
  IF a = <<>> THEN (IF c = 0 THEN <<>> ELSE <<c>>)
  ELSE <<(Head(a) * k + c) % Base>>
       \o BMulSmallC(Tail(a), k, (Head(a) * k + c) \div Base)

RECURSIVE BMulRows(_, _)
BMulRows(a, b) ==
  IF b = <<>> THEN <<>>
  ELSE IF Head(b) = 0 THEN <<0>> \o BMulRows(a, Tail(b))
  ELSE BAdd(BMulSmallC(a, Head(b), 0), <<0>> \o BMulRows(a, Tail(b)))

BMul(a, b) == IF a = <<>> \/ b = <<>> THEN <<>> ELSE BTrim(BMulRows(a, b))

RECURSIVE BPow(_, _)
BPow(a, n) == IF n = 0 THEN <<1>> ELSE BMul(BPow(a, n - 1), a)

\* quotient (with high zero limbs) and remainder of a by d, 0 < d < Base:
\* one limb of a below the quotient and remainder hi of the higher limbs
BDivStep(hi, limb, d) ==
  [q |-> <<(hi.r * Base + limb) \div d>> \o hi.q, r |-> (hi.r * Base + limb) % d]

RECURSIVE BDivRem(_, _)
BDivRem(a, d) ==
  IF a = <<>> THEN [q |-> <<>>, r |-> 0]
  ELSE BDivStep(BDivRem(Tail(a), d), Head(a), d)

RECURSIVE BitsOf(_)
BitsOf(x) == IF x = 0 THEN 0 ELSE 1 + BitsOf(x \div 2)

BitLen(a) ==
  IF a = <<>> THEN 0 ELSE LimbBits * (Len(a) - 1) + BitsOf(a[Len(a)])

BShl(a, n) ==
  IF a = <<>> THEN a
  ELSE Zeros(n \div LimbBits) \o BMulSmallC(a, Pow2(n % LimbBits), 0)

BShr(a, n) ==
  IF n \div LimbBits >= Len(a) THEN <<>>
  ELSE BTrim(BDivRem(SubSeq(a, n \div LimbBits + 1, Len(a)),
                     Pow2(n % LimbBits)).q)

\* whether the low n bits of a are all zero
BLowZero(a, n) ==
  /\ \A i \in 1..(n \div LimbBits) : i > Len(a) \/ a[i] = 0
  /\ \/ n \div LimbBits + 1 > Len(a)
     \/ a[n \div LimbBits + 1] % Pow2(n % LimbBits) = 0

BOdd(a) == a # <<>> /\ a[1] % 2 = 1

(***************************************************************************)
(* Floats: [neg, m, e] is (-1)^neg * m * 2^e with m of exactly Prec bits,  *)
(* or zero.                                                                *)
(***************************************************************************)
FZero == [neg |-> FALSE, m |-> <<>>, e |-> 0]

IsZero(x) == x.m = <<>>

\* q1 is the rounded significand; a carry out of Prec bits raises the exponent
FCarry(neg, q1, e) ==
  IF BitLen(q1) > Prec
  THEN [neg |-> neg, m |-> BShr(q1, 1), e |-> e + 1]
  ELSE [neg |-> neg, m |-> q1, e |-> e]

\* q2 holds Prec + 1 bits: the significand q and the round bit below it; st
\* says whether anything nonzero lies below the round bit
FNearest(neg, q2, q, e, st) ==
  FCarry(neg, IF BOdd(q2) /\ (st \/ BOdd(q)) THEN BAdd(q, <<1>>) ELSE q, e)

FRoundBit(neg, q2, e, st) == FNearest(neg, q2, BShr(q2, 1), e, st)

\* n has L bits
FRoundBits(neg, n, e, sticky, L) ==
  IF L <= Prec
  THEN [neg |-> neg, m |-> BShl(n, Prec - L), e |-> e - (Prec - L)]
  ELSE FRoundBit(neg, BShr(n, L - Prec - 1), e + (L - Prec),
                 sticky \/ ~BLowZero(n, L - Prec - 1))

\* The float nearest to n * 2^e (plus a positive amount below 2^e when
\* sticky), ties to even.  A sticky n has more than Prec + 1 bits.
FRound(neg, n, e, sticky) ==
  IF n = <<>> THEN FZero ELSE FRoundBits(neg, n, e, sticky, BitLen(n))

Abs(n) == IF n < 0 THEN -n ELSE n

\* float(n) for an int n, |n| < Base: exact
FromInt(n) == FRound(n < 0, IF n = 0 THEN <<>> ELSE <<Abs(n)>>, 0, FALSE)

FNeg(x) == IF IsZero(x) THEN x ELSE [x EXCEPT !.neg = ~x.neg]

FMul(x, y) ==
  IF IsZero(x) \/ IsZero(y) THEN FZero
  ELSE FRound(x.neg # y.neg, BMul(x.m, y.m), x.e + y.e, FALSE)

\* x / d for an int d, 0 < d < Base (the float d is exact); qr is the
\* quotient and remainder of the significand shifted up by four limbs
FQuotient(x, qr) == FRound(x.neg, BTrim(qr.q), x.e - 4 * LimbBits, qr.r # 0)

FDivInt(x, d) ==
  IF IsZero(x) THEN FZero ELSE FQuotient(x, BDivRem(Zeros(4) \o x.m, d))

\* the exponent over which the significands of x and y are compared and added
MinE(x, y) ==
  IF IsZero(x) THEN y.e ELSE IF IsZero(y) THEN x.e
  ELSE IF x.e < y.e THEN x.e ELSE y.e

Aligned(x, e0) == IF IsZero(x) THEN <<>> ELSE BShl(x.m, x.e - e0)

\* (-1)^xn * a * 2^e0 + (-1)^yn * b * 2^e0, rounded; c is BCmp(a, b)
FAddMag(xn, a, yn, b, e0, c) ==
  FRound(IF xn = yn \/ c > 0 THEN xn ELSE yn,
         IF xn = yn THEN BAdd(a, b)
         ELSE IF c >= 0 THEN BSub(a, b) ELSE BSub(b, a),
         e0, FALSE)

FAddAligned(xn, a, yn, b, e0) == FAddMag(xn, a, yn, b, e0, BCmp(a, b))

FAddAt(x, y, e0) == FAddAligned(x.neg, Aligned(x, e0), y.neg, Aligned(y, e0), e0)

FAdd(x, y) == FAddAt(x, y, MinE(x, y))

FSub(x, y) == FAdd(x, FNeg(y))

\* x ** n for an int n >= 1, correctly rounded
FPowInt(x, n) ==
  IF IsZero(x) THEN FZero
  ELSE FRound(x.neg /\ n % 2 = 1, BPow(x.m, n), x.e * n, FALSE)

\* -1, 0, 1 as x < y, x = y, x > y
FCmpMag(xn, yn, c) ==
  IF xn /\ ~yn THEN -1 ELSE IF ~xn /\ yn THEN 1 ELSE IF xn THEN -c ELSE c

FCmpAt(x, y, e0) == FCmpMag(x.neg, y.neg, BCmp(Aligned(x, e0), Aligned(y, e0)))

FCmp(x, y) == FCmpAt(x, y, MinE(x, y))

FGt(x, y) == FCmp(x, y) > 0

\* the literal "n.d", a decimal with one digit after the point: the float
\* nearest to tenths / 10
Dec1(tenths) == FDivInt(FromInt(tenths), 10)

(***************************************************************************)
(* The script (src/main.py, lines 58 to 123).                              *)
(***************************************************************************)
Scenarios == {"Custom", "Green City", "Rapid Growth", "Drought Region"}

\* The defaults with one value beyond its slider: Rapid Growth asks for 250
\* reactors.
DefaultsOverRange(s) ==
  IF s = "Green City"
  THEN [funding |-> 40, regulation |-> 8, reactors |-> 50,
        green_pct |-> 80, water_pct |-> 20, pop_growth |-> 5]
  ELSE IF s = "Rapid Growth"
  THEN [funding |-> 80, regulation |-> 4, reactors |-> 250,
        green_pct |-> 30, water_pct |-> 40, pop_growth |-> 30]
  ELSE IF s = "Drought Region"
  THEN [funding |-> 60, regulation |-> 6, reactors |-> 80,
        green_pct |-> 40, water_pct |-> 70, pop_growth |-> 12]
  ELSE [funding |-> 50, regulation |-> 5, reactors |-> 100,
        green_pct |-> 20, water_pct |-> 30, pop_growth |-> 10]

\* pop_growth is kept in tenths of a percent: the slider has step 0.1 and
\* float(defaults["pop_growth"]) is 1.0, 0.5, 3.0, 1.2.
Defaults(s) ==
  IF s = "Green City"
  THEN [funding |-> 40, regulation |-> 8, reactors |-> 50,
        green_pct |-> 80, water_pct |-> 20, pop_growth |-> 5]
  ELSE IF s = "Rapid Growth"
  THEN [funding |-> 80, regulation |-> 4, reactors |-> 150,
        green_pct |-> 30, water_pct |-> 40, pop_growth |-> 30]
  ELSE IF s = "Drought Region"
  THEN [funding |-> 60, regulation |-> 6, reactors |-> 80,
        green_pct |-> 40, water_pct |-> 70, pop_growth |-> 12]
  ELSE [funding |-> 50, regulation |-> 5, reactors |-> 100,
        green_pct |-> 20, water_pct |-> 30, pop_growth |-> 10]

Fields ==
  {"funding", "regulation", "reactors", "green_pct", "water_pct", "pop_growth"}

\* st.slider(label, min_value, max_value, value): the bounds of each slider
SliderMin(f) == 0

SliderMax(f) ==
  CASE f = "funding"    -> 100
    [] f = "regulation" -> 10
    [] f = "reactors"   -> 200
    [] f = "green_pct"  -> 100
    [] f = "water_pct"  -> 100
    [] f = "pop_growth" -> 50

\* st.slider raises StreamlitAPIException for a value outside its bounds
SliderAccepts(f, v) == SliderMin(f) <= v /\ v <= SliderMax(f)

Max(a, b) == IF a >= b THEN a ELSE b

\* The float literals and the int operands the script converts to float.
\* As constants of the model they are computed once.
F4_8 == Dec1(48)
F8_2 == Dec1(82)
F0_8 == Dec1(8)
F0_4 == Dec1(4)
F0_2 == Dec1(2)
FOne == FromInt(1)
F1000 == FromInt(1000)

\* line 80 with the green share in place of its complement
Co2ReductionGreenShare(reactors_, green_) ==
  FMul(FMul(FromInt(reactors_), FDivInt(FromInt(green_), 100)), F4_8)

\* line 80
Co2Reduction(reactors_, green_) ==
  FMul(FMul(FromInt(reactors_), FSub(FOne, FDivInt(FromInt(green_), 100))),
       F4_8)

\* line 81 without the clamp and measured from the middle of the scale
RiskIndexUnclamped(regulation_, reactors_) ==
  FMul(FromInt(5 - regulation_), FDivInt(FromInt(reactors_), 100))

\* line 81
RiskIndex(regulation_, reactors_) ==
  FMul(FromInt(Max(0, 10 - regulation_)), FDivInt(FromInt(reactors_), 100))

\* line 82 with the unfunded share in place of the funded one
EnergyOutputInverted(reactors_, funding_) ==
  FMul(FMul(FromInt(reactors_), FSub(FOne, FDivInt(FromInt(funding_), 100))),
       F8_2)

\* line 82
EnergyOutput(reactors_, funding_) ==
  FMul(FMul(FromInt(reactors_), FDivInt(FromInt(funding_), 100)), F8_2)

\* line 83
BiodivLoss(water_) == FMul(FromInt(water_), F0_8)

\* line 84: (1 + pop_growth / 100) ** 10 for pop_growth = tenths / 10
Growth(tenths) == FPowInt(FAdd(FOne, FDivInt(Dec1(tenths), 100)), 10)

\* Growth over the positions 0..n of the pop_growth slider, computed once
RECURSIVE GrowthUpTo(_)
GrowthUpTo(n) ==
  IF n < 0 THEN <<>> ELSE Append(GrowthUpTo(n - 1), Growth(n))

GrowthTable == GrowthUpTo(SliderMax("pop_growth"))

\* line 84
ProjDemand(pop_) == FMul(F1000, GrowthTable[pop_ + 1])

\* lines 79-84
Simulation(in) ==
  [co2_reduction |-> Co2Reduction(in.reactors, in.green_pct),
   risk_index    |-> RiskIndex(in.regulation, in.reactors),
   energy_output |-> EnergyOutput(in.reactors, in.funding),
   biodiv_loss   |-> BiodivLoss(in.water_pct),
   proj_demand   |-> ProjDemand(in.pop_growth)]

\* line 100 with a label that no lookup asks for
LabelsMisspelled ==
  <<"Demand", "Nuclear", "Solar", "Wind", "Hydro", "Surplus", "Shortfal">>

\* line 100
labels ==
  <<"Demand", "Nuclear", "Solar", "Wind", "Hydro", "Surplus", "Shortfall">>

\* labels.index(name), 0-based; -1 stands for the ValueError of a missing name
LabelsIndex(name) ==
  IF \E i \in 1..Len(labels) : labels[i] = name
  THEN (CHOOSE i \in 1..Len(labels) :
          labels[i] = name /\ \A j \in 1..(i - 1) : labels[j] # name) - 1
  ELSE -1

\* lines 101-106 with shares that do not add up to 1
MixShort(e) ==
  << [src |-> "Nuclear", val |-> FMul(e, F0_4)],
     [src |-> "Solar",   val |-> FMul(e, F0_2)],
     [src |-> "Wind",    val |-> FMul(e, F0_2)],
     [src |-> "Hydro",   val |-> FMul(e, Dec1(1))] >>

\* lines 101-106: the dict, in insertion order
Mix(e) ==
  << [src |-> "Nuclear", val |-> FMul(e, F0_4)],
     [src |-> "Solar",   val |-> FMul(e, F0_2)],
     [src |-> "Wind",    val |-> FMul(e, F0_2)],
     [src |-> "Hydro",   val |-> FMul(e, F0_2)] >>

\* lines 109-113: one link into Demand for each item of mix
MixLinks(mix) ==
  [sources |-> [i \in 1..Len(mix) |-> LabelsIndex(mix[i].src)],
   targets |-> [i \in 1..Len(mix) |-> LabelsIndex("Demand")],
   values  |-> [i \in 1..Len(mix) |-> mix[i].val]]

\* line 115: sum(mix.values()), from the left, starting from 0
RECURSIVE SumFrom(_, _, _)
SumFrom(acc, mix, i) ==
  IF i > Len(mix) THEN acc ELSE SumFrom(FAdd(acc, mix[i].val), mix, i + 1)

Supplied(mix) == SumFrom(FZero, mix, 1)

\* lines 116-123 with the test the wrong way round
ReconcileSwapped(sup, demand) ==
  IF FGt(demand, sup)
  THEN [source |-> LabelsIndex("Demand"), target |-> LabelsIndex("Surplus"),
        value |-> FSub(sup, demand)]
  ELSE [source |-> LabelsIndex("Shortfall"), target |-> LabelsIndex("Demand"),
        value |-> FSub(demand, sup)]

\* lines 116-123 with the same difference on both branches
ReconcileOneDifference(sup, demand) ==
  IF FGt(sup, demand)
  THEN [source |-> LabelsIndex("Demand"), target |-> LabelsIndex("Surplus"),
        value |-> FSub(sup, demand)]
  ELSE [source |-> LabelsIndex("Shortfall"), target |-> LabelsIndex("Demand"),
        value |-> FSub(sup, demand)]

\* lines 116-123: the link that reconciles supply and demand
Reconcile(sup, demand) ==
  IF FGt(sup, demand)
  THEN [source |-> LabelsIndex("Demand"), target |-> LabelsIndex("Surplus"),
        value |-> FSub(sup, demand)]
  ELSE [source |-> LabelsIndex("Shortfall"), target |-> LabelsIndex("Demand"),
        value |-> FSub(demand, sup)]

\* the three appends of lines 117-119 or 121-123
AppendLink(lists, link) ==
  [sources |-> Append(lists.sources, link.source),
   targets |-> Append(lists.targets, link.target),
   values  |-> Append(lists.values, link.value)]

\* lines 108-123, given supplied
Links(mix, sup, demand) == AppendLink(MixLinks(mix), Reconcile(sup, demand))

\* a value the run did not reach
Absent == [absent |-> TRUE]

\* lines 98-123: supplied and the three lists, or the ValueError of a
\* labels.index that finds nothing
Chart(sup, lk) ==
  IF \E i \in 1..Len(lk.sources) : lk.sources[i] < 0 \/ lk.targets[i] < 0
  THEN [exc |-> "ValueError", supplied |-> Absent,
        sources |-> <<>>, targets |-> <<>>, values |-> <<>>]
  ELSE [exc |-> "none", supplied |-> sup,
        sources |-> lk.sources, targets |-> lk.targets, values |-> lk.values]

FlowOf(mix, sup, demand) == Chart(sup, Links(mix, sup, demand))

Flow(mix, demand) == FlowOf(mix, Supplied(mix), demand)

Sankey(energy_output_, demand) == Flow(Mix(energy_output_), demand)

\* what the page shows: the metrics sim (lines 86-96), then the chart
Page(sim, chart) ==
  [exc           |-> chart.exc,
   co2_reduction |-> sim.co2_reduction,
   risk_index    |-> sim.risk_index,
   energy_output |-> sim.energy_output,
   biodiv_loss   |-> sim.biodiv_loss,
   proj_demand   |-> sim.proj_demand,
   supplied      |-> chart.supplied,
   sources       |-> chart.sources,
   targets       |-> chart.targets,
   values        |-> chart.values]

Display(sim) == Page(sim, Sankey(sim.energy_output, sim.proj_demand))

\* what the page shows when a slider raises: nothing of lines 79-123
NoMetrics ==
  [co2_reduction |-> Absent, risk_index |-> Absent, energy_output |-> Absent,
   biodiv_loss |-> Absent, proj_demand |-> Absent]

NoChart ==
  [exc |-> "StreamlitAPIException", supplied |-> Absent,
   sources |-> <<>>, targets |-> <<>>, values |-> <<>>]

\* One run of the script for the defaults d of the scenario and the slider
\* values in.  A default outside the bounds of its slider ends the run at
\* that slider, before anything is computed.
Rerun(d, in) ==
  IF \E f \in Fields : ~SliderAccepts(f, d[f])
  THEN Page(NoMetrics, NoChart)
  ELSE Display(Simulation(in))

(***************************************************************************)
(* The state: the scenario chosen in the selectbox, the values of the six  *)
(* sliders, and what the last run of the script left on the page.          *)
(***************************************************************************)
VARIABLES scenario, inputs, out

vars == <<scenario, inputs, out>>

\* The slider positions the model tries: Grid + 1 of them, evenly spread
\* from the minimum to the maximum.
Grid == 1

\* How many sliders are away from the defaults of the scenario at once.
MaxChanged == 2

SliderPositions(f) ==
  {SliderMin(f) + (i * (SliderMax(f) - SliderMin(f))) \div Grid : i \in 0..Grid}

Changed(s, in) == {f \in Fields : in[f] # Defaults(s)[f]}

Init ==
  /\ scenario = "Custom"
  /\ inputs = Defaults("Custom")
  /\ out = Rerun(Defaults("Custom"), Defaults("Custom"))

\* The selectbox changes (lines 58-68).  The defaults of every slider differ
\* between any two scenarios, and a slider without a key whose default
\* changes is a new widget: it starts from its default (lines 72-77).
SelectScenario(s) ==
  /\ s # scenario
  /\ scenario' = s
  /\ inputs' = Defaults(s)
  /\ out' = Rerun(Defaults(s), Defaults(s))

\* A slider moves to v, and the page keeps what the values before gave
SetSliderStale(f, v) ==
  /\ out.exc # "StreamlitAPIException"
  /\ v # inputs[f]
  /\ SliderAccepts(f, v)
  /\ Cardinality(Changed(scenario, [inputs EXCEPT ![f] = v])) <= MaxChanged
  /\ inputs' = [inputs EXCEPT ![f] = v]
  /\ out' = Rerun(Defaults(scenario), inputs)
  /\ UNCHANGED scenario

\* A slider moves to v; the script runs again with the other widgets as
\* they are (lines 72-77, then 79-123).
SetSlider(f, v) ==
  /\ out.exc # "StreamlitAPIException"
  /\ v # inputs[f]
  /\ SliderAccepts(f, v)
  /\ Cardinality(Changed(scenario, [inputs EXCEPT ![f] = v])) <= MaxChanged
  /\ inputs' = [inputs EXCEPT ![f] = v]
  /\ out' = Rerun(Defaults(scenario), [inputs EXCEPT ![f] = v])
  /\ UNCHANGED scenario

Next ==
  \/ \E s \in Scenarios : SelectScenario(s)
  \/ \E f \in Fields : \E v \in SliderPositions(f) : SetSlider(f, v)

Spec == Init /\ [][Next]_vars

(***************************************************************************)
(* One slider dragged through all of its positions: the page after a       *)
(* scenario is chosen and one slider is dragged to its minimum, then that  *)
(* slider moved up one step at a time while the others stay at their       *)
(* defaults.                                                               *)
(***************************************************************************)
DragInit ==
  /\ scenario \in Scenarios
  /\ \E f \in Fields : inputs = [Defaults(scenario) EXCEPT ![f] = SliderMin(f)]
  /\ out = Rerun(Defaults(scenario), inputs)

DragUp(f) ==
  /\ Changed(scenario, inputs) \subseteq {f}
  /\ SetSlider(f, inputs[f] + 1)

DragNext == \E f \in Fields : DragUp(f)

DragSpec == DragInit /\ [][DragNext]_vars

(***************************************************************************)
(* The energy-mix page.  Its code is not among the sources; it is modelled *)
(* from the specification: four percentages, the last derived as the       *)
(* remainder of 100, and two weighted sums over the static metric table.   *)
(***************************************************************************)
MixSources == <<"Nuclear", "Solar", "Wind", "Hydro">>

CapacityFactor ==
  [Nuclear |-> Dec1(815), Solar |-> Dec1(235),
   Wind |-> FromInt(36), Hydro |-> FromInt(44)]

Co2Intensity ==
  [Nuclear |-> FromInt(12), Solar |-> FromInt(48),
   Wind |-> FromInt(11), Hydro |-> FromInt(24)]

\* the sum over the sources i..4 of weight / 100 * table[source], added to acc
RECURSIVE WeightedFrom(_, _, _, _)
WeightedFrom(acc, weights, table, i) ==
  IF i > Len(MixSources) THEN acc
  ELSE WeightedFrom(
         FAdd(acc, FMul(FDivInt(FromInt(weights[MixSources[i]]), 100),
                        table[MixSources[i]])),
         weights, table, i + 1)

\* the weights taken as they are, not as hundredths
WeightedUnscaled(weights, table) ==
  FAdd(FAdd(FAdd(FMul(FromInt(weights.Nuclear), table.Nuclear),
                 FMul(FromInt(weights.Solar), table.Solar)),
            FMul(FromInt(weights.Wind), table.Wind)),
       FMul(FromInt(weights.Hydro), table.Hydro))

Weighted(weights, table) == WeightedFrom(FZero, weights, table, 1)

\* the weights are tried in steps of MixStep percent
MixStep == 5

MixPositions == {v \in 0..100 : v % MixStep = 0}

\* three percentages chosen, the fourth is what remains of 100
Splits ==
  {[Nuclear |-> n, Solar |-> so, Wind |-> w, Hydro |-> 100 - n - so - w] :
     n \in MixPositions, so \in MixPositions, w \in MixPositions}

MixInit ==
  /\ scenario = "Custom"
  /\ inputs \in {sp \in Splits : sp.Hydro >= 0}
  /\ out = [exc |-> "pending"]

EvaluateMix ==
  /\ out.exc = "pending"
  /\ out' = [exc |-> "none",
             weighted_capacity_factor |-> Weighted(inputs, CapacityFactor),
             weighted_co2_intensity   |-> Weighted(inputs, Co2Intensity)]
  /\ UNCHANGED <<scenario, inputs>>

MixNext == EvaluateMix

MixSpec == MixInit /\ [][MixNext]_vars

(***************************************************************************)
(* Exact arithmetic on floats, for stating the properties: [neg, m, e]     *)
(* with a significand m of any length.                                     *)
(***************************************************************************)
XAdd(x, y) ==
  LET e0 == MinE(x, y)
      a  == Aligned(x, e0)
      b  == Aligned(y, e0)
      c  == BCmp(a, b)
  IN  IF x.neg = y.neg THEN [neg |-> x.neg, m |-> BAdd(a, b), e |-> e0]
      ELSE IF c = 0 THEN FZero
      ELSE IF c > 0 THEN [neg |-> x.neg, m |-> BSub(a, b), e |-> e0]
      ELSE [neg |-> y.neg, m |-> BSub(b, a), e |-> e0]

XSub(x, y) == XAdd(x, FNeg(y))

XAbs(x) == [x EXCEPT !.neg = FALSE]

\* the unit in the last place of the float x
Ulp(x) == [neg |-> FALSE, m |-> <<1>>, e |-> x.e]

\* |x - y| is at most one unit in the last place of y (x = y when y is 0)
WithinOneUlp(x, y) ==
  IF IsZero(y) THEN IsZero(x) ELSE FCmp(XAbs(XSub(x, y)), Ulp(y)) <= 0

IsFloat(x) ==
  /\ DOMAIN x = {"neg", "m", "e"}
  /\ x.m = <<>> \/ BitLen(x.m) = Prec

NonNegative(x) == FCmp(x, FZero) >= 0

Shown == out.exc = "none"

\* the nodes of the chart, as indices into labels
DemandNode == 0
SurplusNode == 5
ShortfallNode == 6

RECURSIVE XSumOver(_, _, _)
XSumOver(vals, idx, acc) ==
  IF idx = {} THEN acc
  ELSE LET i == CHOOSE j \in idx : TRUE
       IN  XSumOver(vals, idx \ {i}, XAdd(acc, vals[i]))

\* what flows into Demand minus what flows out of it, exactly
DemandBalance ==
  XSub(XSumOver(out.values,
                {i \in 1..Len(out.values) : out.targets[i] = DemandNode}, FZero),
       XSumOver(out.values,
                {i \in 1..Len(out.values) : out.sources[i] = DemandNode}, FZero))

EdgesBetween(a, b) ==
  {i \in 1..Len(out.sources) : out.sources[i] = a /\ out.targets[i] = b}

EdgesAt(a) ==
  {i \in 1..Len(out.sources) : out.sources[i] = a \/ out.targets[i] = a}

(***************************************************************************)
(* The claims.                                                             *)
(***************************************************************************)

\* C1: for every input the controls can produce, after any preset selection
\* and slider change, the computed risk_index is >= 0.
C1_RiskNonNegative == Shown => NonNegative(out.risk_index)

C1_Witness ==
  /\ Shown
  /\ scenario = "Rapid Growth"
  /\ inputs.regulation = 0
  /\ inputs.reactors = 200
  /\ FGt(out.risk_index, FZero)

\* C2: supplied is the sum of the four mix flows; if supplied > demand the
\* run appends exactly one edge Demand -> Surplus of value supplied - demand
\* and no Shortfall edge, otherwise exactly one edge Shortfall -> Demand of
\* value demand - supplied and no Surplus edge.  Demand 1000 with supply 900
\* gives a shortfall edge of 100, with supply 1100 a surplus edge of 100.
C2_Reconciliation ==
  /\ Reconcile(FromInt(900), FromInt(1000)) =
       [source |-> ShortfallNode, target |-> DemandNode, value |-> FromInt(100)]
  /\ Reconcile(FromInt(1100), FromInt(1000)) =
       [source |-> DemandNode, target |-> SurplusNode, value |-> FromInt(100)]
  /\ Shown =>
       /\ Len(out.values) = 5
       /\ out.supplied =
            FAdd(FAdd(FAdd(out.values[1], out.values[2]), out.values[3]),
                 out.values[4])
       /\ IF FGt(out.supplied, out.proj_demand)
          THEN /\ EdgesBetween(DemandNode, SurplusNode) = {5}
               /\ EdgesAt(SurplusNode) = {5}
               /\ EdgesAt(ShortfallNode) = {}
               /\ out.values[5] = FSub(out.supplied, out.proj_demand)
          ELSE /\ EdgesBetween(ShortfallNode, DemandNode) = {5}
               /\ EdgesAt(ShortfallNode) = {5}
               /\ EdgesAt(SurplusNode) = {}
               /\ out.values[5] = FSub(out.proj_demand, out.supplied)

C2_Witness ==
  /\ Shown
  /\ FGt(out.supplied, out.proj_demand)
  /\ out.targets[5] = SurplusNode
  /\ FGt(out.values[5], FZero)

\* C3: energy_output never decreases when funding rises with reactors
\* fixed, nor when reactors rise with funding fixed, and a change of any
\* other input leaves it as it is.
C3_EnergyMonotone ==
  [][(Shown /\ out'.exc = "none") =>
       /\ (inputs'.funding >= inputs.funding
           /\ inputs'.reactors >= inputs.reactors)
            => FCmp(out.energy_output, out'.energy_output) <= 0
       /\ (inputs'.funding = inputs.funding
           /\ inputs'.reactors = inputs.reactors)
            => out'.energy_output = out.energy_output]_vars

C3_Witness ==
  /\ Shown
  /\ scenario = "Rapid Growth"
  /\ inputs.funding = 100
  /\ inputs.reactors = 150
  /\ FGt(out.energy_output, EnergyOutput(150, 99))

\* C4: co2_avoided never rises when green_pct rises with reactors fixed,
\* and it is 0 at green_pct = 100.
C4_Co2Monotone ==
  /\ [](Shown /\ inputs.green_pct = 100 => IsZero(out.co2_reduction))
  /\ [][(Shown /\ out'.exc = "none"
         /\ inputs'.reactors = inputs.reactors
         /\ inputs'.green_pct >= inputs.green_pct)
          => FCmp(out'.co2_reduction, out.co2_reduction) <= 0]_vars

C4_Witness ==
  /\ Shown
  /\ inputs.green_pct = 100
  /\ inputs.reactors = 150
  /\ IsZero(out.co2_reduction)

C6_WeightedWithinBounds ==
  Shown =>
    /\ FCmp(CapacityFactor.Solar, out.weighted_capacity_factor) <= 0
    /\ FCmp(out.weighted_capacity_factor, CapacityFactor.Nuclear) <= 0
    /\ FCmp(Co2Intensity.Wind, out.weighted_co2_intensity) <= 0
    /\ FCmp(out.weighted_co2_intensity, Co2Intensity.Solar) <= 0
    /\ (\A src \in DOMAIN inputs : inputs[src] = 25)
         => out.weighted_capacity_factor = FDivInt(FromInt(4625), 100)

C6_Witness ==
  /\ Shown
  /\ \A src \in DOMAIN inputs : inputs[src] = 25
  /\ out.weighted_capacity_factor = FDivInt(FromInt(4625), 100)

\* C7: for every input within the slider ranges the run completes: no
\* exception, all five metrics are floats, and the Sankey links are built.
C7_RunsToCompletion ==
  /\ out.exc = "none"
  /\ IsFloat(out.co2_reduction)
  /\ IsFloat(out.risk_index)
  /\ IsFloat(out.energy_output)
  /\ IsFloat(out.biodiv_loss)
  /\ IsFloat(out.proj_demand)
  /\ Len(out.sources) = 5 /\ Len(out.targets) = 5 /\ Len(out.values) = 5
  /\ \A i \in 1..5 : IsFloat(out.values[i])

C7_Witness ==
  /\ Shown
  /\ inputs.reactors = 0
  /\ inputs.pop_growth = 50
  /\ Len(out.values) = 5

\* the four flows of the split and their edges into Demand
SplitFlows ==
  /\ Len(out.values) >= 4
  /\ SubSeq(out.sources, 1, 4) = <<1, 2, 3, 4>>
  /\ SubSeq(out.targets, 1, 4) = <<DemandNode, DemandNode, DemandNode, DemandNode>>
  /\ out.values[1] = FMul(out.energy_output, F0_4)
  /\ \A i \in 2..4 : out.values[i] = FMul(out.energy_output, F0_2)

\* C8 as stated: the four flows are 0.4, 0.2, 0.2 and 0.2 of energy_output,
\* each an edge into Demand, and supplied equals energy_output exactly.
C8_SuppliedExact ==
  Shown => SplitFlows /\ out.supplied = out.energy_output

\* C8 as amended: the four flows are 0.4, 0.2, 0.2 and 0.2 of energy_output,
\* each an edge into Demand, and supplied equals energy_output up to float
\* rounding: they differ by at most one unit in the last place.
C8_SuppliedWithinUlp ==
  Shown => SplitFlows /\ WithinOneUlp(out.supplied, out.energy_output)

C8_Witness ==
  /\ Shown
  /\ scenario = "Custom"
  /\ inputs = [Defaults("Custom") EXCEPT !.funding = 53]
  /\ out.supplied # out.energy_output
  /\ WithinOneUlp(out.supplied, out.energy_output)

\* C9: for each of the four scenarios every field of the defaults record
\* lies inside the range of its slider, so no slider receives an
\* out-of-range value.
C9_DefaultsInRange ==
  /\ \A f \in Fields : SliderAccepts(f, Defaults(scenario)[f])
  /\ \A f \in Fields : SliderAccepts(f, inputs[f])
  /\ out.exc # "StreamlitAPIException"

C9_Witness ==
  /\ scenario = "Drought Region"
  /\ inputs = Defaults("Drought Region")
  /\ Shown

\* the three lists have length 5 and no link value is negative
LinksWellFormed ==
  /\ Len(out.sources) = 5 /\ Len(out.targets) = 5 /\ Len(out.values) = 5
  /\ \A i \in 1..5 : NonNegative(out.values[i])

\* C10 as stated: the lists have length 5, every value is >= 0, and the
\* values into Demand minus the values out of Demand equal projected_demand.
C10_BalanceExact ==
  Shown => LinksWellFormed /\ FCmp(DemandBalance, out.proj_demand) = 0

\* C10 as amended: the lists have length 5, every value is >= 0, and the
\* values into Demand minus the values out of Demand equal projected_demand
\* up to float rounding: within one unit in its last place.
C10_BalanceWithinUlp ==
  Shown => LinksWellFormed /\ WithinOneUlp(DemandBalance, out.proj_demand)

C10_Witness ==
  /\ Shown
  /\ FGt(out.supplied, out.proj_demand)
  /\ FCmp(DemandBalance, out.proj_demand) # 0
  /\ WithinOneUlp(DemandBalance, out.proj_demand)
====
